---- MODULE Spec2Model ----
(***************************************************************************)
(* Model of the simple-memory MCP server (jenggo/mcp-simple-memory).       *)
(*                                                                         *)
(* The server keeps one SQLite table, simple_memories, and exposes four    *)
(* tool handlers: SimpleMemoryAdd, SimpleMemoryList, SimpleMemorySearch    *)
(* and SimpleMemoryDelete.  Strings are sequences of one-character         *)
(* strings, so that trimming and LIKE matching are computed character by   *)
(* character.                                                              *)
(***************************************************************************)
EXTENDS Integers, Sequences, FiniteSets, TLC

VARIABLES
    rows,      \* the rows of table simple_memories (a set of records)
    seq,       \* sqlite_sequence entry of the table (AUTOINCREMENT counter)
    clock,     \* the store's wall clock as last read by a created_at default
    issued,    \* history: every id an INSERT has assigned so far
    result,    \* the request and the CallToolResult of the last call that returned
    pc,        \* per reading caller: "idle" or "scanning" (rows cursor open)
    cur,       \* per reading caller: the open read (operation, query, snapshot)
    seen,      \* history, per reader: table states committed while its read is open
    wr,        \* per writing caller: the Add or Delete call it is in the middle of
    hist,      \* history: the writes in the order their statements took effect
    columns,   \* the column names of table simple_memories, <<>> when it does not exist
    phase,     \* the process: "down", "serving" or "exited"
    disableLogging,  \* SimpleMemoryServer.disableLogging
    logfile    \* the notices the log sink has accepted

readVars == <<pc, cur, seen>>

writeVars == <<wr, hist>>

startVars == <<columns, phase>>

logVars == <<disableLogging, logfile>>

vars == <<rows, seq, clock, issued, result, readVars, writeVars, startVars, logVars>>

(***************************************************************************)
(* Bounds                                                                  *)
(***************************************************************************)
MaxAdds == 3

NumReaders == 1

NumWriters == 2

MaxConcAdds == 2

MaxWrites == 3

MaxStoreAdds == 3

MaxNotices == 3

(***************************************************************************)
(* Strings                                                                 *)
(***************************************************************************)
Empty == <<>>

\* unicode.IsSpace, restricted to the ASCII white space of the inputs
IsSpace(c) == c \in {" ", "\t", "\n", "\r"}

RECURSIVE TrimLeft(_)
TrimLeft(s) ==
    IF s = <<>> THEN s
    ELSE IF IsSpace(Head(s)) THEN TrimLeft(Tail(s))
    ELSE s

RECURSIVE TrimRight(_)
TrimRight(s) ==
    IF s = <<>> THEN s
    ELSE IF IsSpace(s[Len(s)]) THEN TrimRight(SubSeq(s, 1, Len(s) - 1))
    ELSE s

\* strings.TrimSpace
TrimSpace(s) == TrimRight(TrimLeft(s))

\* Go's + on strings
Concat(s, t) == s \o t

UpperLetters ==
    <<"A","B","C","D","E","F","G","H","I","J","K","L","M",
      "N","O","P","Q","R","S","T","U","V","W","X","Y","Z">>

LowerLetters ==
    <<"a","b","c","d","e","f","g","h","i","j","k","l","m",
      "n","o","p","q","r","s","t","u","v","w","x","y","z">>

UpperSet == {UpperLetters[i] : i \in 1..26}

LowerOf == [c \in UpperSet |-> LowerLetters[CHOOSE i \in 1..26 : UpperLetters[i] = c]]

\* the ASCII case folding SQLite's LIKE applies to both operands
UpperToLower(c) == IF c \in UpperSet THEN LowerOf[c] ELSE c

\* the comparison of one pattern character with one text character
LikeCharEq(a, b) == UpperToLower(a) = UpperToLower(b)

\* SQLite's LIKE: '%' matches any run of characters, '_' any one character,
\* anything else matches itself up to ASCII case
RECURSIVE PatternCompare(_, _)
PatternCompare(p, s) ==
    IF p = <<>> THEN s = <<>>
    ELSE IF Head(p) = "%"
         THEN \E k \in 0..Len(s) :
                 PatternCompare(Tail(p), SubSeq(s, k + 1, Len(s)))
    ELSE IF s = <<>> THEN FALSE
    ELSE IF Head(p) = "_" THEN PatternCompare(Tail(p), Tail(s))
    ELSE LikeCharEq(Head(p), Head(s)) /\ PatternCompare(Tail(p), Tail(s))

(***************************************************************************)
(* Column values                                                           *)
(***************************************************************************)
\* sql.NullString: a TEXT column that may hold NULL
NullString(v, s) == [Valid |-> v, String |-> s]

Text(s) == NullString(TRUE, s)

Null == NullString(FALSE, <<>>)

\* `col LIKE ?` in a WHERE clause: NULL LIKE x is NULL, which selects nothing
Like(col, pattern) == col.Valid /\ PatternCompare(pattern, col.String)

\* the bound parameter "%"+query+"%"
LikeArg(query) == Concat(Concat(<<"%">>, query), <<"%">>)

(***************************************************************************)
(* The record store: table simple_memories                                 *)
(***************************************************************************)
MaxOf(S) == IF S = {} THEN 0 ELSE CHOOSE m \in S : \A x \in S : x <= m

\* variant: a plain INTEGER PRIMARY KEY, which takes the largest rowid present
NextId_NoAutoincrement(table, sequence) == MaxOf({r.id : r \in table}) + 1

\* id INTEGER PRIMARY KEY AUTOINCREMENT: one more than the largest rowid the
\* table has ever held (sqlite_sequence), never less than the rows present
NextId(table, sequence) == MaxOf({r.id : r \in table} \cup {sequence}) + 1

\* INSERT INTO simple_memories (title, tags, status, content) VALUES (?, ?, ?, ?)
\* created_at takes its column default, the store's current time
InsertRow(table, sequence, title, tags, status, content, now) ==
    [id |-> NextId(table, sequence),
     title |-> Text(title), tags |-> Text(tags), status |-> Text(status),
     content |-> content, created_at |-> now]

\* variant: ORDER BY id DESC
RECURSIVE OrderById_Descending(_)
OrderById_Descending(S) ==
    IF S = {} THEN <<>>
    ELSE LET first == CHOOSE r \in S : \A x \in S : r.id >= x.id
         IN  <<first>> \o OrderById_Descending(S \ {first})

\* ORDER BY id ASC
RECURSIVE OrderById(_)
OrderById(S) ==
    IF S = {} THEN <<>>
    ELSE LET first == CHOOSE r \in S : \A x \in S : r.id <= x.id
         IN  <<first>> \o OrderById(S \ {first})

\* WHERE title LIKE ? OR tags LIKE ? OR status LIKE ? OR content LIKE ?
\* of the SELECT in SimpleMemorySearch
SearchWhere(r, query) ==
    \/ Like(r.title, LikeArg(query))
    \/ Like(r.tags, LikeArg(query))
    \/ Like(r.status, LikeArg(query))
    \/ Like(Text(r.content), LikeArg(query))

\* variant: the DELETE filters on content alone
DeleteWhere_ContentOnly(r, query) == Like(Text(r.content), LikeArg(query))

\* WHERE title LIKE ? OR tags LIKE ? OR status LIKE ? OR content LIKE ?
\* of the DELETE in SimpleMemoryDelete
DeleteWhere(r, query) ==
    \/ Like(r.title, LikeArg(query))
    \/ Like(r.tags, LikeArg(query))
    \/ Like(r.status, LikeArg(query))
    \/ Like(Text(r.content), LikeArg(query))

\* variant: the DELETE stops after the first row it finds
DeletedRows_FirstOnly(table, query) ==
    IF \E r \in table : DeleteWhere(r, query)
    THEN {CHOOSE r \in table : DeleteWhere(r, query)}
    ELSE {}

\* variant: the DELETE spares the newest row it finds
DeletedRows_SpareNewest(table, query) ==
    LET found == {r \in table : DeleteWhere(r, query)}
    IN  {r \in found : \E x \in found : x.id > r.id}

\* the rows a DELETE statement removes: all that satisfy its WHERE clause
DeletedRows(table, query) == {r \in table : DeleteWhere(r, query)}

\* the rows the SELECT of SimpleMemoryList yields, in order
ListSelect(table) == OrderById(table)

\* the rows the SELECT of SimpleMemorySearch yields, in order
SearchSelect(table, query) == OrderById({r \in table : SearchWhere(r, query)})

(***************************************************************************)
(* Requests and results                                                    *)
(***************************************************************************)
\* req.GetString(key, default)
GetString(req, key, default) == IF key \in DOMAIN req THEN req[key] ELSE default

\* req.RequireString(key) fails when the argument is absent
HasString(req, key) == key \in DOMAIN req

\* mcp.NewToolResultError
NewToolResultError(msg) ==
    [isError |-> TRUE, text |-> msg, lines |-> <<>>, n |-> 0, stmts |-> 0]

\* mcp.NewToolResultText; lines holds the joined JSON lines, n the %d of the
\* text, stmts the number of statements the handler sent to the store
NewToolResultText(msg, lines, n) ==
    [isError |-> FALSE, text |-> msg, lines |-> lines, n |-> n, stmts |-> 1]

\* a store error surfaces after the statement was sent
StoreError(msg) == [NewToolResultError(msg) EXCEPT !.stmts = 1]

\* variant: a NULL column prints as the JSON literal null
FormatMemory_NullLiteral(r) ==
    LET Shown(v) == IF v.Valid THEN v.String ELSE <<"n","u","l","l">>
    IN  [id |-> r.id, title |-> Shown(r.title), tags |-> Shown(r.tags),
         status |-> Shown(r.status), content |-> r.content,
         created_at |-> r.created_at]

\* the JSON line of one scanned row; a NULL column prints as its zero String
FormatMemory(r) ==
    [id |-> r.id, title |-> r.title.String, tags |-> r.tags.String,
     status |-> r.status.String, content |-> r.content,
     created_at |-> r.created_at]

\* variant: every scanned row is appended
ScanLoop_KeepAll(rs) == [i \in 1..Len(rs) |-> FormatMemory(rs[i])]

\* the rows.Next loop of List and Search: a row is appended unless its
\* content trims to the empty string
RECURSIVE ScanLoop(_)
ScanLoop(rs) ==
    IF rs = <<>> THEN <<>>
    ELSE IF TrimSpace(Head(rs).content) # Empty
         THEN <<FormatMemory(Head(rs))>> \o ScanLoop(Tail(rs))
         ELSE ScanLoop(Tail(rs))

(***************************************************************************)
(* The four tool handlers, as functions of the table they run against.     *)
(* fail is the outcome of the one statement the handler sends: TRUE when   *)
(* the store returns an error for it.                                      *)
(***************************************************************************)
\* variant: the memory argument is stored as given
AddContent_Untrimmed(memory) == memory

\* content := strings.TrimSpace(memory)
AddContent(memory) == TrimSpace(memory)

\* variant: the query argument is used as given
QueryOf_Untrimmed(queryParam) == queryParam

\* query := strings.TrimSpace(queryParam)
QueryOf(queryParam) == TrimSpace(queryParam)

SimpleMemoryAddCall(table, sequence, now, req, fail) ==
    LET title   == GetString(req, "title", Empty)
        tags    == GetString(req, "tags", Empty)
        status  == GetString(req, "status", Empty)
        keep    == [rows |-> table, seq |-> sequence, ids |-> {}]
    IN  IF ~HasString(req, "memory")
        THEN keep @@ [res |-> NewToolResultError("invalid params")]
        ELSE IF AddContent(req["memory"]) = Empty
        THEN keep @@ [res |-> NewToolResultError("memory cannot be empty")]
        ELSE IF fail
        THEN keep @@ [res |-> StoreError("failed to add memory")]
        ELSE LET r == InsertRow(table, sequence, TrimSpace(title), TrimSpace(tags),
                                TrimSpace(status), AddContent(req["memory"]), now)
             IN  [rows |-> table \cup {r}, seq |-> r.id, ids |-> {r.id},
                  res |-> NewToolResultText("Simple-memory added.", <<>>, 0)]

\* the part of SimpleMemoryList after the SELECT has produced its rows
ListResult(selected) ==
    LET memories == ScanLoop(selected)
    IN  IF Len(memories) = 0
        THEN NewToolResultText("", <<>>, 0)
        ELSE NewToolResultText("memories", memories, 0)

SimpleMemoryListCall(table, fail) ==
    IF fail THEN StoreError("failed to read simple-memories")
    ELSE ListResult(ListSelect(table))

\* the part of SimpleMemorySearch after the SELECT has produced its rows
SearchResult(selected) ==
    LET matches == ScanLoop(selected)
    IN  IF Len(matches) = 0
        THEN NewToolResultText("No matching simple-memories found.", <<>>, 0)
        ELSE NewToolResultText("matches", matches, 0)

SimpleMemorySearchCall(table, req, fail) ==
    IF ~HasString(req, "query") THEN NewToolResultError("invalid params")
    ELSE IF QueryOf(req["query"]) = Empty
    THEN NewToolResultError("query cannot be empty")
    ELSE IF fail THEN StoreError("failed to search simple-memories")
    ELSE SearchResult(SearchSelect(table, QueryOf(req["query"])))

\* variant: a Delete that removed nothing is reported as an error
DeleteResult_NoMatchIsError(n) ==
    IF n = 0
    THEN StoreError("No simple-memories deleted (no match).")
    ELSE NewToolResultText("Deleted %d simple-memories.", <<>>, n)

\* n, _ := res.RowsAffected() and the two success texts
DeleteResult(n) ==
    IF n = 0
    THEN NewToolResultText("No simple-memories deleted (no match).", <<>>, 0)
    ELSE NewToolResultText("Deleted %d simple-memories.", <<>>, n)

SimpleMemoryDeleteCall(table, req, fail) ==
    IF ~HasString(req, "query")
    THEN [rows |-> table, res |-> NewToolResultError("invalid params")]
    ELSE IF QueryOf(req["query"]) = Empty
    THEN [rows |-> table, res |-> NewToolResultError("query cannot be empty")]
    ELSE IF fail
    THEN [rows |-> table, res |-> StoreError("failed to delete simple-memories")]
    ELSE LET gone == DeletedRows(table, QueryOf(req["query"]))
         IN  [rows |-> table \ gone, res |-> DeleteResult(Cardinality(gone))]

(***************************************************************************)
(* Inputs                                                                  *)
(***************************************************************************)
\* arguments of simple_memory_add calls
AddRequests ==
    { [title |-> <<"X">>, tags |-> <<"g","o",",","d","b">>,
       status |-> <<"o","p","e","n">>, memory |-> <<"n","o","t","e">>],
      [title |-> <<"G","o">>, memory |-> <<"t","m","p">>],
      [status |-> <<" ">>, memory |-> <<" ","5","%"," ">>],
      [memory |-> <<>>],
      [memory |-> <<" ","\t">>],
      [title |-> <<"X">>],
      [simple_memory |-> <<"n","o","t","e">>] }

\* arguments of simple_memory_search and simple_memory_delete calls
QueryRequests ==
    { [query |-> <<"g","o">>],
      [query |-> <<" ","t","m","p"," ">>],
      [query |-> <<"%">>],
      [query |-> <<"_">>],
      [query |-> <<"z">>],
      [query |-> <<>>],
      [query |-> <<" "," ">>],
      [text |-> <<"g","o">>] }

\* the callers that run List and Search in the concurrent specification
Readers == 1..NumReaders

NoRequest == [none |-> <<>>]

NoResult == NewToolResultText("", <<>>, 0)

NoRead == [op |-> "none", req |-> NoRequest, snap |-> {}]

\* the callers that run Add and Delete step by step
Writers == 1..NumWriters

NoWrite == [pc |-> "idle", op |-> "none", req |-> NoRequest, snap |-> {}]

\* the columns of CREATE TABLE IF NOT EXISTS simple_memories, in order
FullSchema == <<"id", "title", "tags", "status", "content", "created_at">>

(***************************************************************************)
(* Sequential specification: one caller, each call runs to completion      *)
(***************************************************************************)
Init ==
    /\ rows = {}
    /\ seq = 0
    /\ clock = 0
    /\ issued = {}
    /\ result = [op |-> "none", req |-> NoRequest, res |-> NoResult]
    /\ pc = [c \in Readers |-> "idle"]
    /\ cur = [c \in Readers |-> NoRead]
    /\ seen = [c \in Readers |-> {}]
    /\ wr = [w \in Writers |-> NoWrite]
    /\ hist = <<>>
    /\ columns = FullSchema
    /\ phase = "serving"
    /\ disableLogging = FALSE
    /\ logfile = <<>>

\* the readings the store's clock can give; it never runs backwards
Times == {0, 1}

SimpleMemoryAddWith(req, fail, now) ==
    /\ seq < MaxAdds
    /\ now >= clock
    /\ LET o == SimpleMemoryAddCall(rows, seq, now, req, fail)
       IN  /\ rows' = o.rows
           /\ seq' = o.seq
           /\ issued' = issued \cup o.ids
           /\ clock' = IF o.ids = {} THEN clock ELSE now
           /\ result' = [op |-> "add", req |-> req, res |-> o.res]
    /\ UNCHANGED <<pc, cur, seen>>
    /\ UNCHANGED <<writeVars, startVars, logVars>>

SimpleMemoryAdd ==
    \E req \in AddRequests, fail \in BOOLEAN, now \in Times :
        SimpleMemoryAddWith(req, fail, now)

SimpleMemoryListWith(fail) ==
    /\ result' = [op |-> "list", req |-> NoRequest,
                  res |-> SimpleMemoryListCall(rows, fail)]
    /\ UNCHANGED <<rows, seq, clock, issued, pc, cur, seen>>
    /\ UNCHANGED <<writeVars, startVars, logVars>>

SimpleMemoryList == \E fail \in BOOLEAN : SimpleMemoryListWith(fail)

SimpleMemorySearchWith(req, fail) ==
    /\ result' = [op |-> "search", req |-> req,
                  res |-> SimpleMemorySearchCall(rows, req, fail)]
    /\ UNCHANGED <<rows, seq, clock, issued, pc, cur, seen>>
    /\ UNCHANGED <<writeVars, startVars, logVars>>

SimpleMemorySearch ==
    \E req \in QueryRequests, fail \in BOOLEAN : SimpleMemorySearchWith(req, fail)

SimpleMemoryDeleteWith(req, fail) ==
    /\ LET o == SimpleMemoryDeleteCall(rows, req, fail)
       IN  /\ rows' = o.rows
           /\ result' = [op |-> "delete", req |-> req, res |-> o.res]
    /\ UNCHANGED <<seq, clock, issued, pc, cur, seen>>
    /\ UNCHANGED <<writeVars, startVars, logVars>>

SimpleMemoryDelete ==
    \E req \in QueryRequests, fail \in BOOLEAN : SimpleMemoryDeleteWith(req, fail)

Next ==
    \/ SimpleMemoryAdd
    \/ SimpleMemoryList
    \/ SimpleMemorySearch
    \/ SimpleMemoryDelete

Spec == Init /\ [][Next]_vars

(***************************************************************************)
(* Concurrent specification: several callers share the one store handle.   *)
(* A statement takes effect at one instant.  A SELECT reads the table as   *)
(* it was when its cursor was opened, until the rows.Next loop ends; other *)
(* callers' statements may commit in between.  Add and Delete send one     *)
(* statement and keep nothing between steps, so the callers that run them  *)
(* need no state of their own; the store's clock is held still.            *)
(***************************************************************************)
ConcAddRequests ==
    { [title |-> <<"G","o">>, memory |-> <<"t","m","p">>],
      [status |-> <<" ">>, memory |-> <<" ","5","%"," ">>] }

ConcQueryRequests ==
    { [query |-> <<" ","t","m","p"," ">>],
      [query |-> <<"5">>] }

\* the table states committed while a cursor is open, as its owner could
\* have observed them
Committed(table) == [c \in Readers |->
                        IF pc[c] = "scanning" THEN seen[c] \cup {table} ELSE seen[c]]

\* variant: the cursor reads its first row when opened and the rest of the
\* table only when the loop runs
Visible_ReadUncommitted(snapshot, live) ==
    IF snapshot = {} THEN live
    ELSE LET first == CHOOSE r \in snapshot : \A x \in snapshot : r.id <= x.id
         IN  {first} \cup {r \in live : r.id > first.id}

\* the rows an open cursor reads: those of the table when it was opened
Visible(snapshot, live) == snapshot

ConcAdd ==
    \E req \in ConcAddRequests, fail \in BOOLEAN :
        /\ seq < MaxConcAdds
        /\ LET o == SimpleMemoryAddCall(rows, seq, clock, req, fail)
           IN  /\ rows' = o.rows
               /\ seq' = o.seq
               /\ issued' = issued \cup o.ids
               /\ seen' = Committed(o.rows)
               /\ result' = [op |-> "add", req |-> req, res |-> o.res]
        /\ UNCHANGED <<clock, pc, cur>>
        /\ UNCHANGED <<writeVars, startVars, logVars>>

ConcDelete ==
    \E req \in ConcQueryRequests, fail \in BOOLEAN :
        /\ LET o == SimpleMemoryDeleteCall(rows, req, fail)
           IN  /\ rows' = o.rows
               /\ seen' = Committed(o.rows)
               /\ result' = [op |-> "delete", req |-> req, res |-> o.res]
        /\ UNCHANGED <<seq, clock, issued, pc, cur>>
        /\ UNCHANGED <<writeVars, startVars, logVars>>

\* s.db.Query of SimpleMemoryList: the cursor opens, or the call fails
ConcListQuery(c) ==
    \E fail \in BOOLEAN :
        /\ pc[c] = "idle"
        /\ IF fail
           THEN /\ result' = [op |-> "list", req |-> NoRequest,
                              res |-> SimpleMemoryListCall(rows, TRUE)]
                /\ UNCHANGED <<pc, cur, seen>>
           ELSE /\ pc' = [pc EXCEPT ![c] = "scanning"]
                /\ cur' = [cur EXCEPT ![c] =
                        [op |-> "list", req |-> NoRequest, snap |-> rows]]
                /\ seen' = [seen EXCEPT ![c] = {rows}]
                /\ UNCHANGED result
        /\ UNCHANGED <<rows, seq, clock, issued>>
        /\ UNCHANGED <<writeVars, startVars, logVars>>

\* SimpleMemorySearch up to s.db.Query: the arguments are checked, then the
\* cursor opens or the call fails
ConcSearchQuery(c) ==
    \E req \in ConcQueryRequests, fail \in BOOLEAN :
        /\ pc[c] = "idle"
        /\ IF SimpleMemorySearchCall(rows, req, fail).isError
           THEN /\ result' = [op |-> "search", req |-> req,
                              res |-> SimpleMemorySearchCall(rows, req, fail)]
                /\ UNCHANGED <<pc, cur, seen>>
           ELSE /\ pc' = [pc EXCEPT ![c] = "scanning"]
                /\ cur' = [cur EXCEPT ![c] =
                        [op |-> "search", req |-> req, snap |-> rows]]
                /\ seen' = [seen EXCEPT ![c] = {rows}]
                /\ UNCHANGED result
        /\ UNCHANGED <<rows, seq, clock, issued>>
        /\ UNCHANGED <<writeVars, startVars, logVars>>

\* the rows.Next loop of List or Search runs to its end and the call returns
ConcScan(c) ==
    /\ pc[c] = "scanning"
    /\ pc' = [pc EXCEPT ![c] = "idle"]
    /\ LET table == Visible(cur[c].snap, rows)
       IN  result' = [op |-> cur[c].op, req |-> cur[c].req,
                      res |-> IF cur[c].op = "list"
                              THEN SimpleMemoryListCall(table, FALSE)
                              ELSE SimpleMemorySearchCall(table, cur[c].req, FALSE)]
    /\ cur' = [cur EXCEPT ![c] = NoRead]
    /\ seen' = [seen EXCEPT ![c] = {}]
    /\ UNCHANGED <<rows, seq, clock, issued>>
    /\ UNCHANGED <<writeVars, startVars, logVars>>

ConcNext ==
    \/ ConcAdd
    \/ ConcDelete
    \/ \E c \in Readers :
        \/ ConcListQuery(c)
        \/ ConcSearchQuery(c)
        \/ ConcScan(c)

ConcSpec == Init /\ [][ConcNext]_vars

\* ---------------------------------------------------------------------
\* Concurrent writers, step by step.  A handler is entered and validates
\* its arguments; later its one statement runs in the store.  No handler
\* takes a lock of its own: the struct holds db and logger only.
\* ---------------------------------------------------------------------

\* the calls that have been entered and have not run their statement
Pending == {w \in Writers : wr[w].pc = "called"}

\* variant: the statement acts on the table as the handler found it on entry
StatementTable_AsEntered(entered, live) == entered

\* the table s.db.Exec acts on: the store's table when the statement runs
StatementTable(entered, live) == live

\* SimpleMemoryAdd and SimpleMemoryDelete up to s.db.Exec: the arguments
\* are read and found valid
WriteCall(w) ==
    /\ wr[w].pc = "idle"
    /\ Len(hist) + Cardinality(Pending) < MaxWrites
    /\ \/ \E req \in ConcAddRequests :
            wr' = [wr EXCEPT ![w] =
                     [pc |-> "called", op |-> "add", req |-> req, snap |-> rows]]
       \/ \E req \in ConcQueryRequests :
            wr' = [wr EXCEPT ![w] =
                     [pc |-> "called", op |-> "delete", req |-> req, snap |-> rows]]
    /\ UNCHANGED <<rows, seq, clock, issued, result, hist>>
    /\ UNCHANGED <<readVars, startVars, logVars>>

\* the outcome of the statement of call on table t
WriteOutcome(call, t, sequence, now, fail) ==
    IF call.op = "add"
    THEN SimpleMemoryAddCall(t, sequence, now, call.req, fail)
    ELSE LET o == SimpleMemoryDeleteCall(t, call.req, fail)
         IN  [rows |-> o.rows, seq |-> sequence, ids |-> {}, res |-> o.res]

\* s.db.Exec of the entered call and the handler's return
WriteExec(w) ==
    \E fail \in BOOLEAN :
        /\ wr[w].pc = "called"
        /\ LET o == WriteOutcome(wr[w], StatementTable(wr[w].snap, rows),
                                 seq, clock, fail)
           IN  /\ rows' = o.rows
               /\ seq' = o.seq
               /\ issued' = issued \cup o.ids
               /\ result' = [op |-> wr[w].op, req |-> wr[w].req, res |-> o.res]
               /\ hist' = Append(hist, [op |-> wr[w].op, req |-> wr[w].req,
                                        snap |-> wr[w].snap, fail |-> fail,
                                        res |-> o.res])
        /\ wr' = [wr EXCEPT ![w] = NoWrite]
        /\ UNCHANGED clock
        /\ UNCHANGED <<readVars, startVars, logVars>>

WriteNext ==
    \E w \in Writers :
        \/ WriteCall(w)
        \/ WriteExec(w)

WriteSpec == Init /\ [][WriteNext]_vars

\* ---------------------------------------------------------------------
\* A write statement under way next to open reads.  The store admits one
\* write statement at a time; what a read and a write may do next to each
\* other depends on the journal mode startup has set.
\* ---------------------------------------------------------------------

\* variant: the store is left in SQLite's default rollback journal
JournalMode_Rollback == "delete"

\* the journal mode after db.Exec("PRAGMA journal_mode=WAL;")
JournalMode == "wal"

\* the callers whose write statement is under way
Writing == {w \in Writers : wr[w].pc = "writing"}

\* the callers whose cursor is open
Scanning == {c \in Readers : pc[c] = "scanning"}

\* a SELECT can begin: always with a write-ahead log, else only while no
\* write statement is under way
CanRead(mode) == mode = "wal" \/ Writing = {}

\* a write statement can commit: always with a write-ahead log, else only
\* while no cursor is open
CanCommit(mode) == mode = "wal" \/ Scanning = {}

\* the calls that write in this specification
WalAddRequest == [title |-> <<"G","o">>, memory |-> <<"t","m","p">>]

WalDeleteRequest == [query |-> <<" ","t","m","p"," ">>]

\* s.db.Exec of Add or Delete begins: the statement takes the write lock
WalBegin(w) ==
    /\ wr[w].pc = "idle"
    /\ Writing = {}
    /\ \/ /\ seq < MaxConcAdds
          /\ wr' = [wr EXCEPT ![w] =
                     [pc |-> "writing", op |-> "add", req |-> WalAddRequest,
                      snap |-> {}]]
       \/ wr' = [wr EXCEPT ![w] =
                     [pc |-> "writing", op |-> "delete", req |-> WalDeleteRequest,
                      snap |-> {}]]
    /\ UNCHANGED <<rows, seq, clock, issued, result, hist>>
    /\ UNCHANGED <<readVars, startVars, logVars>>

\* the statement commits, or fails, and the handler returns; where the store
\* does not let it commit yet, the caller waits
WalCommit(w) ==
    /\ wr[w].pc = "writing"
    /\ IF CanCommit(JournalMode)
       THEN \E fail \in BOOLEAN :
               LET o == WriteOutcome(wr[w], rows, seq, clock, fail)
               IN  /\ rows' = o.rows
                   /\ seq' = o.seq
                   /\ issued' = issued \cup o.ids
                   /\ result' = [op |-> wr[w].op, req |-> wr[w].req, res |-> o.res]
                   /\ wr' = [wr EXCEPT ![w] = NoWrite]
       ELSE /\ wr' = [wr EXCEPT ![w].pc = "waiting"]
            /\ UNCHANGED <<rows, seq, issued, result>>
    /\ UNCHANGED <<clock, hist>>
    /\ UNCHANGED <<readVars, startVars, logVars>>

\* s.db.Query of List or Search: the cursor opens, or the call fails; where
\* the store does not let the SELECT begin yet, the caller waits
WalQuery(c) ==
    /\ pc[c] = "idle"
    /\ IF CanRead(JournalMode)
       THEN ConcListQuery(c) \/ ConcSearchQuery(c)
       ELSE /\ pc' = [pc EXCEPT ![c] = "waiting"]
            /\ UNCHANGED <<rows, seq, clock, issued, result, cur, seen>>
            /\ UNCHANGED <<writeVars, startVars, logVars>>

WalNext ==
    \/ \E w \in Writers :
        \/ WalBegin(w)
        \/ WalCommit(w)
    \/ \E c \in Readers :
        \/ WalQuery(c)
        \/ ConcScan(c)

WalSpec == Init /\ [][WalNext]_vars

\* ---------------------------------------------------------------------
\* The process from launch to exit, over a store that outlives it.
\* NewSimpleMemoryServer opens the store, creates the table when it is not
\* there and adds the columns an older table lacks; main exits when it
\* returns an error and registers the four tools when it does not.
\* ---------------------------------------------------------------------

Range(f) == {f[i] : i \in DOMAIN f}

\* the keys of the columns map of NewSimpleMemoryServer
OptionalColumns == {"title", "tags", "status"}

\* the orders in which the range over the columns map can visit its keys
ColumnOrders == {o \in [1..3 -> OptionalColumns] : Range(o) = OptionalColumns}

\* the columns of the content-only variant's table
LegacySchema == <<"id", "content", "created_at">>

\* INSERT INTO simple_memories (content) VALUES (?) of the content-only
\* variant; the columns it does not have read as NULL once they are added
LegacyInsert(table, sequence, content, now) ==
    [id |-> NextId(table, sequence),
     title |-> Null, tags |-> Null, status |-> Null,
     content |-> content, created_at |-> now]

\* what the content-only variant's Add calls were given, in order
LegacyMemories == << <<"t","m","p">>, <<" ","5","%"," ">> >>

\* the store the content-only variant leaves after its first k Add calls
RECURSIVE LegacyStore(_)
LegacyStore(k) ==
    IF k = 0 THEN [rows |-> {}, seq |-> 0, columns |-> LegacySchema]
    ELSE LET s == LegacyStore(k - 1)
             r == LegacyInsert(s.rows, s.seq, TrimSpace(LegacyMemories[k]), k - 1)
         IN  [rows |-> s.rows \cup {r}, seq |-> r.id, columns |-> LegacySchema]

\* the stores a first launch can find: no table yet, or a table of the
\* content-only variant
FoundStores ==
    {[rows |-> {}, seq |-> 0, columns |-> <<>>]}
        \cup {LegacyStore(k) : k \in 0..Len(LegacyMemories)}

\* variant: the table is dropped and created anew
SchemaExec_Recreate(cols, table) == [columns |-> FullSchema, rows |-> {}]

\* CREATE TABLE IF NOT EXISTS simple_memories: a table that exists is left
\* as it is, columns and rows
SchemaExec(cols, table) ==
    [columns |-> IF cols = <<>> THEN FullSchema ELSE cols, rows |-> table]

\* variant: the ALTER statement is sent without looking at table_info
Found_Unchecked(cols, col, queryOk) == FALSE

\* found, after the loop over PRAGMA table_info(simple_memories)
Found(cols, col, queryOk) == queryOk /\ col \in Range(cols)

\* ALTER TABLE simple_memories ADD COLUMN col TEXT; the store refuses a
\* column name the table already has
AddColumn(cols, col, fail) ==
    IF fail \/ cols = <<>> \/ col \in Range(cols) THEN cols ELSE Append(cols, col)

\* what can go wrong for one key of the columns map: the table_info query
\* fails, its cursor ends in an error, or the ALTER statement fails; one
\* launch meets one kind of fault, for any of the keys
Faults ==
    {f \in [OptionalColumns -> {"none", "query", "rows", "alter"}] :
        Cardinality({f[c] : c \in OptionalColumns} \ {"none"}) <= 1}

\* the loop "for col, stmt := range columns"; sent holds the keys whose
\* ALTER statement was sent
RECURSIVE EnsureColumns(_, _, _)
EnsureColumns(cols, order, faults) ==
    IF order = <<>> THEN [columns |-> cols, ok |-> TRUE, sent |-> {}]
    ELSE LET col == Head(order)
             found == Found(cols, col, faults[col] # "query")
         IN  IF faults[col] = "rows"
             THEN [columns |-> cols, ok |-> FALSE, sent |-> {}]
             ELSE LET next == IF found THEN cols
                              ELSE AddColumn(cols, col, faults[col] = "alter")
                      rest == EnsureColumns(next, Tail(order), faults)
                  IN  [columns |-> rest.columns, ok |-> rest.ok,
                       sent |-> rest.sent \cup (IF found THEN {} ELSE {col})]

\* the outcomes of one launch: whether sql.Open and the schema statement
\* succeed, the order of the range, and the faults of the column loop; the
\* loop is not reached when one of the first two fails
StartupInputs ==
    [open : {TRUE}, create : {TRUE}, order : ColumnOrders, faults : Faults]
        \cup [open : {FALSE}, create : {TRUE},
              order : {<<"title", "tags", "status">>},
              faults : {[c \in OptionalColumns |-> "none"]}]
        \cup [open : {TRUE}, create : {FALSE},
              order : {<<"title", "tags", "status">>},
              faults : {[c \in OptionalColumns |-> "none"]}]

\* NewSimpleMemoryServer on a store with columns cols and rows table
NewSimpleMemoryServerCall(cols, table, in) ==
    IF ~in.open
    THEN [columns |-> cols, rows |-> table, sent |-> {},
          res |-> NewToolResultError("failed to open sqlite3 db")]
    ELSE IF ~in.create
    THEN [columns |-> cols, rows |-> table, sent |-> {},
          res |-> StoreError("failed to create schema")]
    ELSE LET s == SchemaExec(cols, table)
             e == EnsureColumns(s.columns, in.order, in.faults)
         IN  [columns |-> e.columns, rows |-> s.rows, sent |-> e.sent,
              res |-> IF e.ok THEN NewToolResultText("", <<>>, 0)
                      ELSE StoreError("failed to check columns")]

\* variant: main goes on to serve whatever NewSimpleMemoryServer returned
PhaseAfterStartup_Serve(res) == "serving"

\* main: os.Exit(1) when NewSimpleMemoryServer returned an error
PhaseAfterStartup(res) == IF res.isError THEN "exited" ELSE "serving"

\* a statement of a handler fails when the store returns an error for it, as
\* it does when the statement names a column the table does not have
StatementFails(cols, fail) == fail \/ ~(OptionalColumns \subseteq Range(cols))

StartInit ==
    /\ \E s \in FoundStores :
        /\ rows = s.rows
        /\ seq = s.seq
        /\ columns = s.columns
        /\ issued = {r.id : r \in s.rows}
    /\ phase = "down"
    /\ clock = 0
    /\ result = [op |-> "none", req |-> NoRequest, res |-> NoResult]
    /\ pc = [c \in Readers |-> "idle"]
    /\ cur = [c \in Readers |-> NoRead]
    /\ seen = [c \in Readers |-> {}]
    /\ wr = [w \in Writers |-> NoWrite]
    /\ hist = <<>>
    /\ disableLogging = FALSE
    /\ logfile = <<>>

\* the process is launched: main up to the registration of the tools
StartupWith(in) ==
    /\ phase \in {"down", "exited"}
    /\ LET o == NewSimpleMemoryServerCall(columns, rows, in)
       IN  /\ columns' = o.columns
           /\ rows' = o.rows
           /\ phase' = PhaseAfterStartup(o.res)
           /\ result' = [op |-> "startup",
                         req |-> [open |-> in.open, create |-> in.create,
                                  columns |-> columns],
                         res |-> o.res]
    /\ UNCHANGED <<seq, clock, issued>>
    /\ UNCHANGED <<readVars, writeVars, logVars>>

Startup == \E in \in StartupInputs : StartupWith(in)

\* the serving process ends; the store stays
Stop ==
    /\ phase = "serving"
    /\ phase' = "down"
    /\ result' = [op |-> "stop", req |-> NoRequest, res |-> NoResult]
    /\ UNCHANGED <<rows, seq, clock, issued, columns>>
    /\ UNCHANGED <<readVars, writeVars, logVars>>

ServeAdd ==
    \E req \in ConcAddRequests, fail \in BOOLEAN :
        /\ phase = "serving"
        /\ seq < MaxStoreAdds
        /\ LET o == SimpleMemoryAddCall(rows, seq, clock, req,
                                        StatementFails(columns, fail))
           IN  /\ rows' = o.rows
               /\ seq' = o.seq
               /\ issued' = issued \cup o.ids
               /\ result' = [op |-> "add", req |-> req, res |-> o.res]
        /\ UNCHANGED <<clock, readVars, writeVars, startVars, logVars>>

ServeList ==
    \E fail \in BOOLEAN :
        /\ phase = "serving"
        /\ result' = [op |-> "list", req |-> NoRequest,
                      res |-> SimpleMemoryListCall(rows,
                                  StatementFails(columns, fail))]
        /\ UNCHANGED <<rows, seq, clock, issued>>
        /\ UNCHANGED <<readVars, writeVars, startVars, logVars>>

ServeSearch ==
    \E req \in ConcQueryRequests, fail \in BOOLEAN :
        /\ phase = "serving"
        /\ result' = [op |-> "search", req |-> req,
                      res |-> SimpleMemorySearchCall(rows, req,
                                  StatementFails(columns, fail))]
        /\ UNCHANGED <<rows, seq, clock, issued>>
        /\ UNCHANGED <<readVars, writeVars, startVars, logVars>>

ServeDelete ==
    \E req \in ConcQueryRequests, fail \in BOOLEAN :
        /\ phase = "serving"
        /\ LET o == SimpleMemoryDeleteCall(rows, req,
                                           StatementFails(columns, fail))
           IN  /\ rows' = o.rows
               /\ result' = [op |-> "delete", req |-> req, res |-> o.res]
        /\ UNCHANGED <<seq, clock, issued>>
        /\ UNCHANGED <<readVars, writeVars, startVars, logVars>>

StartNext ==
    \/ Startup
    \/ Stop
    \/ ServeAdd
    \/ ServeList
    \/ ServeSearch
    \/ ServeDelete

StartSpec == StartInit /\ [][StartNext]_vars

\* ---------------------------------------------------------------------
\* The handlers with their logging.  Add and Delete write one notice after
\* their statement has succeeded, unless DISABLE_SIMPLE_MEMORY_LOGGING is
\* set; the sink is a rolling file that can fail to take the line.
\* ---------------------------------------------------------------------

\* s.logger.Printf: the line reaches the file, or is lost when the sink
\* fails; Printf returns nothing to the handler
LogPrintf(file, line, sinkFails) == IF sinkFails THEN file ELSE Append(file, line)

\* variant: the handler reports a notice that was not written
AfterNotice_Checked(res, written) ==
    IF written THEN res ELSE StoreError("failed to write log")

\* the handler's result after the logging block
AfterNotice(res, written) == res

LoggedAddCall(table, sequence, now, req, fail, disable, sinkFails, file) ==
    LET o == SimpleMemoryAddCall(table, sequence, now, req, fail)
        after == IF o.res.isError \/ disable THEN file
                 ELSE LogPrintf(file, [op |-> "add", n |-> 1], sinkFails)
    IN  [rows |-> o.rows, seq |-> o.seq, ids |-> o.ids, logfile |-> after,
         res |-> IF o.res.isError THEN o.res
                 ELSE AfterNotice(o.res, after # file)]

LoggedDeleteCall(table, req, fail, disable, sinkFails, file) ==
    LET o == SimpleMemoryDeleteCall(table, req, fail)
        after == IF o.res.isError \/ disable THEN file
                 ELSE LogPrintf(file, [op |-> "delete", n |-> o.res.n], sinkFails)
    IN  [rows |-> o.rows, logfile |-> after,
         res |-> IF o.res.isError THEN o.res
                 ELSE AfterNotice(o.res, after # file)]

\* the requests of this specification: valid ones and one of each kind the
\* handlers reject before they reach the store
LogAddRequests == ConcAddRequests \cup {[memory |-> <<" ">>]}

LogQueryRequests == ConcQueryRequests \cup {[query |-> <<>>]}

\* the process has started with DISABLE_SIMPLE_MEMORY_LOGGING set or not
LogInit ==
    /\ rows = {}
    /\ seq = 0
    /\ clock = 0
    /\ issued = {}
    /\ result = [op |-> "none", req |-> NoRequest, res |-> NoResult]
    /\ pc = [c \in Readers |-> "idle"]
    /\ cur = [c \in Readers |-> NoRead]
    /\ seen = [c \in Readers |-> {}]
    /\ wr = [w \in Writers |-> NoWrite]
    /\ hist = <<>>
    /\ columns = FullSchema
    /\ phase = "serving"
    /\ disableLogging \in BOOLEAN
    /\ logfile = <<>>

LogAdd ==
    \E req \in LogAddRequests, fail \in BOOLEAN, sinkFails \in BOOLEAN :
        /\ seq < MaxConcAdds
        /\ Len(logfile) < MaxNotices
        /\ LET o == LoggedAddCall(rows, seq, clock, req, fail,
                                  disableLogging, sinkFails, logfile)
           IN  /\ rows' = o.rows
               /\ seq' = o.seq
               /\ issued' = issued \cup o.ids
               /\ logfile' = o.logfile
               /\ result' = [op |-> "add", req |-> req, res |-> o.res]
        /\ UNCHANGED <<clock, disableLogging>>
        /\ UNCHANGED <<readVars, writeVars, startVars>>

LogDelete ==
    \E req \in LogQueryRequests, fail \in BOOLEAN, sinkFails \in BOOLEAN :
        /\ Len(logfile) < MaxNotices
        /\ LET o == LoggedDeleteCall(rows, req, fail,
                                     disableLogging, sinkFails, logfile)
           IN  /\ rows' = o.rows
               /\ logfile' = o.logfile
               /\ result' = [op |-> "delete", req |-> req, res |-> o.res]
        /\ UNCHANGED <<seq, clock, issued, disableLogging>>
        /\ UNCHANGED <<readVars, writeVars, startVars>>

LogNext ==
    \/ LogAdd
    \/ LogDelete

LogSpec == LogInit /\ [][LogNext]_vars

\* ---------------------------------------------------------------------
\* Calls one after another, failed ones among them.  Every path of a
\* handler ends in "return result, nil"; hist keeps what each call was
\* given and what it returned.
\* ---------------------------------------------------------------------

\* requests of every kind: valid, blank, and without the required argument
RecoverAddRequests == LogAddRequests \cup {[title |-> <<"X">>]}

RecoverQueryRequests == LogQueryRequests \cup {[text |-> <<"g","o">>]}

\* variant: the process ends when a handler meets an error
PhaseAfterCall_Fatal(res) == IF res.isError THEN "exited" ELSE "serving"

\* the process after a handler has returned: every return is
\* (result, nil), for error results too, and the server goes on
PhaseAfterCall(res) == "serving"

\* what a returning call leaves behind, the store apart
Returned(op, req, res) ==
    /\ result' = [op |-> op, req |-> req, res |-> res]
    /\ hist' = Append(hist, [op |-> op, req |-> req, res |-> res])
    /\ phase' = PhaseAfterCall(res)
    /\ UNCHANGED <<clock, wr, columns>>
    /\ UNCHANGED <<readVars, logVars>>

RecoverAdd ==
    \E req \in RecoverAddRequests, fail \in BOOLEAN :
        /\ phase = "serving"
        /\ Len(hist) < MaxWrites
        /\ LET o == SimpleMemoryAddCall(rows, seq, clock, req, fail)
           IN  /\ rows' = o.rows
               /\ seq' = o.seq
               /\ issued' = issued \cup o.ids
               /\ Returned("add", req, o.res)

RecoverList ==
    \E fail \in BOOLEAN :
        /\ phase = "serving"
        /\ Len(hist) < MaxWrites
        /\ Returned("list", NoRequest, SimpleMemoryListCall(rows, fail))
        /\ UNCHANGED <<rows, seq, issued>>

RecoverSearch ==
    \E req \in RecoverQueryRequests, fail \in BOOLEAN :
        /\ phase = "serving"
        /\ Len(hist) < MaxWrites
        /\ Returned("search", req, SimpleMemorySearchCall(rows, req, fail))
        /\ UNCHANGED <<rows, seq, issued>>

RecoverDelete ==
    \E req \in RecoverQueryRequests, fail \in BOOLEAN :
        /\ phase = "serving"
        /\ Len(hist) < MaxWrites
        /\ LET o == SimpleMemoryDeleteCall(rows, req, fail)
           IN  /\ rows' = o.rows
               /\ Returned("delete", req, o.res)
        /\ UNCHANGED <<seq, issued>>

RecoverNext ==
    \/ RecoverAdd
    \/ RecoverList
    \/ RecoverSearch
    \/ RecoverDelete

RecoverSpec == Init /\ [][RecoverNext]_vars

\* ---------------------------------------------------------------------
\* A store that something other than Add writes to.  The table accepts any
\* text as content (TEXT NOT NULL), so a writer that bypasses the handler
\* can leave a row whose content is empty or blank.
\* ---------------------------------------------------------------------

\* what such a writer leaves as content
BlankContents == {<<>>, <<" ">>, <<"\t", " ">>}

\* UPDATE simple_memories SET content = blank WHERE id = r.id, from outside
Corrupt ==
    \E r \in rows, blank \in BlankContents :
        /\ rows' = (rows \ {r}) \cup {[r EXCEPT !.content = blank]}
        /\ result' = [op |-> "corrupt", req |-> NoRequest, res |-> NoResult]
        /\ UNCHANGED <<seq, clock, issued>>
        /\ UNCHANGED <<readVars, writeVars, startVars, logVars>>

CorruptNext ==
    \/ ConcAdd
    \/ ConcDelete
    \/ Corrupt
    \/ SimpleMemoryList
    \/ SimpleMemorySearch

CorruptSpec == Init /\ [][CorruptNext]_vars

(***************************************************************************)
(* Vocabulary of the properties                                            *)
(***************************************************************************)
\* q occurs in s as a contiguous run of equal characters
Contains(s, q) ==
    \E i \in 0..(Len(s) - Len(q)) : SubSeq(s, i + 1, i + Len(q)) = q

\* q occurs in s when letter case is ignored
ContainsIgnoringCase(s, q) ==
    \E i \in 0..(Len(s) - Len(q)) :
        \A j \in 1..Len(q) : UpperToLower(s[i + j]) = UpperToLower(q[j])

\* q is a substring of at least one of title, tags, status, content
FieldOrMatch(r, q) ==
    \/ Contains(r.title.String, q)
    \/ Contains(r.tags.String, q)
    \/ Contains(r.status.String, q)
    \/ Contains(r.content, q)

\* q occurs in some field, but in no field with the same letter case
OnlyCaseDiffers(r, q) ==
    /\ ~FieldOrMatch(r, q)
    /\ \/ ContainsIgnoringCase(r.title.String, q)
       \/ ContainsIgnoringCase(r.tags.String, q)
       \/ ContainsIgnoringCase(r.status.String, q)
       \/ ContainsIgnoringCase(r.content, q)

\* empty or white space only
IsBlank(s) == \A i \in 1..Len(s) : s[i] \in {" ", "\t", "\n", "\r"}

HasWildcard(q) == \E i \in 1..Len(q) : q[i] \in {"%", "_"}

IdsOf(S) == {r.id : r \in S}

LineSet(lines) == {lines[i] : i \in 1..Len(lines)}

\* the last sequential call was op and returned a success result
Succeeded(op) == result.op = op /\ ~result.res.isError

\* the trimmed query of the call recorded in res
AskedQuery(res) == TrimSpace(res.req["query"])

\* the step is a call of the handler with the recorded request, and the
\* store carried out its statement
SearchStep ==
    /\ result'.op = "search" /\ ~result'.res.isError
    /\ SimpleMemorySearchWith(result'.req, FALSE)

DeleteStep ==
    /\ result'.op = "delete" /\ ~result'.res.isError
    /\ SimpleMemoryDeleteWith(result'.req, FALSE)

AddStep ==
    /\ result'.op = "add" /\ ~result'.res.isError
    /\ \E now \in Times : SimpleMemoryAddWith(result'.req, FALSE, now)

(***************************************************************************)
(* C1  Search/Delete symmetry: the count Delete(q) returns equals the      *)
(* number of records Search(q) returns on the state Delete started from,   *)
(* and the records removed are exactly the records Search(q) returned.     *)
(***************************************************************************)
C1_SearchDeleteSymmetry ==
    [][DeleteStep =>
        LET before == SimpleMemorySearchCall(rows, result'.req, FALSE)
        IN  /\ ~before.isError
            /\ result'.res.n = Len(before.lines)
            /\ {FormatMemory(r) : r \in rows \ rows'} = LineSet(before.lines)
            /\ Cardinality(rows \ rows') = Len(before.lines)]_vars

\* Delete("go") removed two records: one matched in tags, one in title
C1_Witness ==
    /\ Succeeded("delete")
    /\ AskedQuery(result) = <<"g", "o">>
    /\ result.res.n = 2

(***************************************************************************)
(* C2  Field OR-matching: a record matches q, for Search and for Delete,   *)
(* if and only if q is a substring of at least one of its title, tags,     *)
(* status or content.                                                      *)
(***************************************************************************)
C2_FieldOrMatching ==
    [][/\ SearchStep =>
            {l.id : l \in LineSet(result'.res.lines)}
                = {r.id : r \in {x \in rows : FieldOrMatch(x, AskedQuery(result'))}}
       /\ DeleteStep =>
            rows \ rows' = {x \in rows : FieldOrMatch(x, AskedQuery(result'))}]_vars

(***************************************************************************)
(* C3  Matching is case-sensitive: a record whose fields contain the query *)
(* only in a different letter case is not returned by Search and not       *)
(* removed by Delete.                                                      *)
(***************************************************************************)
C3_CaseSensitive ==
    [][/\ SearchStep =>
            \A r \in rows : OnlyCaseDiffers(r, AskedQuery(result'))
                => r.id \notin {l.id : l \in LineSet(result'.res.lines)}
       /\ DeleteStep =>
            \A r \in rows : OnlyCaseDiffers(r, AskedQuery(result'))
                => r \in rows']_vars

(***************************************************************************)
(* C4  No wildcard interpretation: '%' and '_' in a query are matched      *)
(* literally, so a query holding one returns (Search) and removes (Delete) *)
(* only the records that contain the query text in some field.             *)
(***************************************************************************)
C4_NoWildcard ==
    [][/\ (SearchStep /\ HasWildcard(AskedQuery(result'))) =>
            \A l \in LineSet(result'.res.lines) :
                \E r \in rows : r.id = l.id /\ FieldOrMatch(r, AskedQuery(result'))
       /\ (DeleteStep /\ HasWildcard(AskedQuery(result'))) =>
            \A r \in rows \ rows' : FieldOrMatch(r, AskedQuery(result'))]_vars

(***************************************************************************)
(* C5  Content required: an Add whose content is empty or white space only *)
(* returns the "memory cannot be empty" error and persists no row; every   *)
(* persisted record has content that is non-empty after trimming.          *)
(***************************************************************************)
C5_ContentRequired ==
    /\ [](\A r \in rows : ~IsBlank(r.content))
    /\ [][(/\ result'.op = "add"
           /\ "memory" \in DOMAIN result'.req
           /\ IsBlank(result'.req["memory"])
           /\ \E now \in Times : SimpleMemoryAddWith(result'.req, FALSE, now))
          => /\ result'.res.isError
             /\ result'.res.text = "memory cannot be empty"
             /\ rows' = rows
             /\ seq' = seq]_vars

\* a white-space-only Add was rejected while the table held a record
C5_Witness ==
    /\ result.op = "add"
    /\ "memory" \in DOMAIN result.req
    /\ result.req["memory"] = <<" ", "\t">>
    /\ result.res.isError
    /\ rows # {}

(***************************************************************************)
(* C6  Empty query rejected: Search and Delete called with an empty or     *)
(* white-space-only query return the "query cannot be empty" error, send   *)
(* no statement to the store and leave the record set unchanged.           *)
(***************************************************************************)
C6_EmptyQueryRejected ==
    [][(/\ result'.op \in {"search", "delete"}
        /\ "query" \in DOMAIN result'.req
        /\ IsBlank(result'.req["query"])
        /\ \/ SimpleMemorySearchWith(result'.req, FALSE)
           \/ SimpleMemoryDeleteWith(result'.req, FALSE))
       => /\ result'.res.isError
          /\ result'.res.text = "query cannot be empty"
          /\ result'.res.stmts = 0
          /\ rows' = rows]_vars

\* a white-space-only Delete was rejected while the table held a record
C6_Witness ==
    /\ result.op = "delete"
    /\ "query" \in DOMAIN result.req
    /\ result.req["query"] = <<" ", " ">>
    /\ result.res.isError
    /\ rows # {}

(***************************************************************************)
(* C7  Ids are strictly increasing and never reused: each successful Add   *)
(* assigns an id greater than every id assigned before, also the ids of    *)
(* records deleted since; on a fresh store the first id is 1.              *)
(***************************************************************************)
C7_IdsNeverReused ==
    [][AddStep =>
        \E r \in rows' \ rows :
            /\ rows' = rows \cup {r}
            /\ \A i \in issued : r.id > i
            /\ issued = {} => r.id = 1]_vars

\* the only record present got id 2 after the record with id 1 was deleted
C7_Witness ==
    /\ Succeeded("add")
    /\ issued = {1, 2}
    /\ IdsOf(rows) = {2}

ReadReturns(c) == pc[c] = "scanning" /\ pc'[c] = "idle"

(***************************************************************************)
(* C9  List returns every record persisted when its SELECT ran exactly     *)
(* once, in strictly ascending id order, whatever the order in which       *)
(* concurrent callers' Adds took effect; with no records it returns an     *)
(* empty successful result.                                                *)
(***************************************************************************)
C9_ListOrdering ==
    [][\A c \in Readers : (ReadReturns(c) /\ cur[c].op = "list") =>
        LET lines == result'.res.lines
        IN  /\ ~result'.res.isError
            /\ \A i \in 1..(Len(lines) - 1) : lines[i].id < lines[i + 1].id
            /\ LineSet(lines) = {FormatMemory(r) : r \in cur[c].snap}
            /\ Len(lines) = Cardinality(cur[c].snap)
            /\ cur[c].snap = {} => (lines = <<>> /\ result'.res.text = "")]_vars

\* a List whose SELECT ran between two callers' Adds returned exactly the
\* record of the first, after the second had taken effect
C9_Witness ==
    /\ Succeeded("list")
    /\ Len(result.res.lines) = 1
    /\ result.res.lines[1].id = 1
    /\ IdsOf(rows) = {1, 2}

(***************************************************************************)
(* C10  A reader never observes a partially-applied write: what a List or  *)
(* Search returns is what it would return on one of the table states that  *)
(* existed between two whole statements while it ran.                      *)
(***************************************************************************)
C10_NoPartialWrite ==
    [][\A c \in Readers : ReadReturns(c) =>
        \E table \in seen[c] :
            result'.res = IF cur[c].op = "list"
                          THEN SimpleMemoryListCall(table, FALSE)
                          ELSE SimpleMemorySearchCall(table, cur[c].req, FALSE)]_vars

\* a List returned both records although a Delete that committed during its
\* scan had removed them
C10_Witness ==
    /\ Succeeded("list")
    /\ Len(result.res.lines) = 2
    /\ rows = {}
\* ---------------------------------------------------------------------
\* C11  Concurrent Add and Delete calls take effect one at a time: the
\*      table, the id sequence and every call's result are those of running
\*      the calls alone, one after another, in the order their statements
\*      took effect.
\* ---------------------------------------------------------------------

\* the calls of h run one at a time from the empty store
RECURSIVE Replay(_)
Replay(h) ==
    IF h = <<>>
    THEN [rows |-> {}, seq |-> 0, same |-> TRUE]
    ELSE LET before == Replay(SubSeq(h, 1, Len(h) - 1))
             call == h[Len(h)]
             o == WriteOutcome(call, before.rows, before.seq, clock, call.fail)
         IN  [rows |-> o.rows, seq |-> o.seq,
              same |-> before.same /\ o.res = call.res]

C11_WritesSerialized ==
    LET alone == Replay(hist)
    IN  /\ alone.same
        /\ alone.rows = rows
        /\ alone.seq = seq

\* a Delete entered on the empty table removed the row of an Add that ran
\* while the Delete was pending
C11_Witness ==
    /\ Len(hist) >= 2
    /\ hist[1].op = "add" /\ ~hist[1].res.isError
    /\ hist[2].op = "delete" /\ hist[2].snap = {}
    /\ ~hist[2].res.isError /\ hist[2].res.n = 1

StartupStep == phase \in {"down", "exited"} /\ result'.op = "startup"

\* what a record is known by across restarts
Persisted(S) == {[id |-> r.id, content |-> r.content, created_at |-> r.created_at] : r \in S}

\* the table has every column the handlers' statements name
Migrated(cols) == OptionalColumns \subseteq Range(cols)

\* ---------------------------------------------------------------------
\* C13  Restart and additive migration lose no data: every launch leaves
\*      the stored records as they were, and when it leaves the table with
\*      the title, tags and status columns (they were there or it added
\*      them to a content-only table) List returns exactly the records
\*      stored before, with their ids, content and created_at.
\* ---------------------------------------------------------------------
C13_RestartKeepsRecords ==
    [][StartupStep =>
        /\ Persisted(rows') = Persisted(rows)
        /\ (phase' = "serving" /\ Migrated(columns')) =>
              LET res == SimpleMemoryListCall(rows', StatementFails(columns', FALSE))
              IN  /\ ~res.isError
                  /\ Persisted(LineSet(res.lines)) = Persisted(rows)
                  /\ Len(res.lines) = Cardinality(rows)]_vars

\* a launch found the content-only table with two records, added the three
\* columns and serves
C13_Witness ==
    /\ result.op = "startup"
    /\ result.req.columns = LegacySchema
    /\ phase = "serving"
    /\ Migrated(columns)
    /\ Cardinality(rows) = 2

\* ---------------------------------------------------------------------
\* C14  Migration degrades gracefully: whenever a launch has succeeded,
\*      also one in which adding an optional column failed, Add, List and
\*      Search work, and List returns every record.
\* ---------------------------------------------------------------------
C14_MigrationFailureTolerated ==
    phase = "serving" =>
        LET broken == StatementFails(columns, FALSE)
            listed == SimpleMemoryListCall(rows, broken)
        IN  /\ ~listed.isError
            /\ Len(listed.lines) = Cardinality(rows)
            /\ \A req \in ConcQueryRequests :
                  ~SimpleMemorySearchCall(rows, req, broken).isError
            /\ \A req \in ConcAddRequests :
                  ~SimpleMemoryAddCall(rows, seq, clock, req, broken).res.isError

\* the launches in which no statement of startup fails
FaultFree == {in \in StartupInputs :
                 in.open /\ in.create /\ \A c \in OptionalColumns : in.faults[c] = "none"}

\* ---------------------------------------------------------------------
\* C15  The check-then-add migration is idempotent: on every store, a
\*      launch after a launch succeeds and leaves the columns and the
\*      records as the first one left them, sending no ALTER statement for
\*      a column that is there; no table ever has a column twice.
\* ---------------------------------------------------------------------
C15_MigrationIdempotent ==
    /\ Cardinality(Range(columns)) = Len(columns)
    /\ \A first \in FaultFree :
          LET once == NewSimpleMemoryServerCall(columns, rows, first)
          IN  /\ ~once.res.isError
              /\ \A second \in FaultFree :
                    LET twice == NewSimpleMemoryServerCall(once.columns,
                                                          once.rows, second)
                    IN  /\ ~twice.res.isError
                        /\ twice.columns = once.columns
                        /\ twice.rows = once.rows
                        /\ twice.sent = {}

\* a launch has run on a table that an earlier launch had migrated from the
\* content-only variant, and left it as it was
C15_Witness ==
    /\ result.op = "startup"
    /\ ~result.res.isError
    /\ Len(result.req.columns) = 6
    /\ SubSeq(result.req.columns, 1, 3) = LegacySchema
    /\ Migrated(result.req.columns)
    /\ columns = result.req.columns
    /\ rows # {}

\* the string a caller is to see for a stored optional value
Surfaced(v) == IF v.Valid THEN v.String ELSE Empty

\* List or Search has returned rows
ReadStep ==
    /\ result'.op \in {"list", "search"}
    /\ ~result'.res.isError

\* ---------------------------------------------------------------------
\* C16  Optional fields are never surfaced as NULL: every line List or
\*      Search returns carries title, tags and status as strings, the empty
\*      string where the stored value is NULL; and a field an Add call did
\*      not supply reads back as the empty string.
\* ---------------------------------------------------------------------
C16_OptionalFieldsNeverNull ==
    [][/\ (phase = "serving" /\ ReadStep) =>
            \A i \in 1..Len(result'.res.lines) :
                LET line == result'.res.lines[i]
                IN  \E r \in rows :
                        /\ r.id = line.id
                        /\ line.title = Surfaced(r.title)
                        /\ line.tags = Surfaced(r.tags)
                        /\ line.status = Surfaced(r.status)
       /\ (phase = "serving" /\ result'.op = "add" /\ ~result'.res.isError) =>
            \A r \in rows' \ rows :
                LET line == FormatMemory(r)
                IN  /\ "title" \notin DOMAIN result'.req => line.title = Empty
                    /\ "tags" \notin DOMAIN result'.req => line.tags = Empty
                    /\ "status" \notin DOMAIN result'.req => line.status = Empty
      ]_vars

\* List has returned a record whose title, tags and status are NULL in the
\* store, with the empty string for each
C16_Witness ==
    /\ phase = "serving"
    /\ result.op = "list" /\ ~result.res.isError
    /\ \E i \in 1..Len(result.res.lines) :
          /\ result.res.lines[i].title = Empty
          /\ result.res.lines[i].tags = Empty
          /\ result.res.lines[i].status = Empty
          /\ \E r \in rows :
                /\ r.id = result.res.lines[i].id
                /\ ~r.title.Valid /\ ~r.tags.Valid /\ ~r.status.Valid

\* ---------------------------------------------------------------------
\* C17  Logging never alters an outcome: on every store state, an Add or
\*      Delete call returns the same result and leaves the same records
\*      whether logging is enabled or disabled and whether or not the sink
\*      takes the notice.
\* ---------------------------------------------------------------------
C17_LoggingNeverAltersOutcome ==
    \A fail \in BOOLEAN, d1 \in BOOLEAN, s1 \in BOOLEAN, d2 \in BOOLEAN, s2 \in BOOLEAN :
        /\ \A req \in LogAddRequests :
              LET a == LoggedAddCall(rows, seq, clock, req, fail, d1, s1, logfile)
                  b == LoggedAddCall(rows, seq, clock, req, fail, d2, s2, logfile)
              IN  a.res = b.res /\ a.rows = b.rows /\ a.seq = b.seq
        /\ \A req \in LogQueryRequests :
              LET a == LoggedDeleteCall(rows, req, fail, d1, s1, logfile)
                  b == LoggedDeleteCall(rows, req, fail, d2, s2, logfile)
              IN  a.res = b.res /\ a.rows = b.rows

\* with logging enabled, an Add succeeded whose notice the sink had lost and
\* a Delete removed its record with its notice written
C17_Witness ==
    /\ ~disableLogging
    /\ seq = 1
    /\ rows = {}
    /\ result.op = "delete" /\ ~result.res.isError /\ result.res.n = 1
    /\ logfile = <<[op |-> "delete", n |-> 1]>>

\* Delete has sent its statement for a query that selects no record, and
\* the store has run it
EmptyDeleteStep ==
    /\ result'.op = "delete"
    /\ HasString(result'.req, "query")
    /\ QueryOf(result'.req["query"]) # Empty
    /\ \A r \in rows : ~SearchWhere(r, QueryOf(result'.req["query"]))
    /\ SimpleMemoryDeleteWith(result'.req, FALSE)

HandlerOps == {"add", "list", "search", "delete"}

\* ---------------------------------------------------------------------
\* C19  An unavailable store is fatal: when the store cannot be opened or
\*      the table cannot be created, startup returns an error and the
\*      process exits with the store as it found it; no Add, List, Search
\*      or Delete runs in a process whose startup has not succeeded.
\* ---------------------------------------------------------------------
C19_StoreUnavailableFatal ==
    [][/\ (StartupStep /\ ~(result'.req.open /\ result'.req.create)) =>
            /\ result'.res.isError
            /\ phase' = "exited"
            /\ rows' = rows
            /\ columns' = columns
       /\ result'.op \in HandlerOps => phase = "serving" /\ phase' = "serving"
       /\ phase = "exited" => result'.op = "startup"
      ]_vars

\* a launch on a store that holds records could not create the table, and
\* the process has exited
C19_Witness ==
    /\ phase = "exited"
    /\ result.op = "startup"
    /\ result.req.open /\ ~result.req.create
    /\ result.res.text = "failed to create schema"
    /\ rows # {}

\* ---------------------------------------------------------------------
\* C20  An Add call that gives its content under the argument name
\*      simple_memory is accepted: when the value is not blank and the store
\*      takes the statement, the call returns the success confirmation and
\*      the trimmed value is persisted as a new record.
\* ---------------------------------------------------------------------
C20_DocumentedArgumentAccepted ==
    [][(/\ result'.op = "add"
        /\ HasString(result'.req, "simple_memory")
        /\ TrimSpace(result'.req["simple_memory"]) # Empty
        /\ \E now \in Times : SimpleMemoryAddWith(result'.req, FALSE, now)) =>
        /\ ~result'.res.isError
        /\ result'.res.text = "Simple-memory added."
        /\ \E r \in rows' \ rows :
              r.content = TrimSpace(result'.req["simple_memory"])]_vars

\* the error results the handlers can return
ErrorTexts ==
    {"invalid params", "memory cannot be empty", "query cannot be empty",
     "failed to add memory", "failed to read simple-memories",
     "failed to search simple-memories", "failed to delete simple-memories"}

\* the calls of h that succeeded
RECURSIVE Successes(_)
Successes(h) ==
    IF h = <<>> THEN <<>>
    ELSE IF Head(h).res.isError THEN Successes(Tail(h))
    ELSE <<Head(h)>> \o Successes(Tail(h))

\* the store and the results when the calls of h are made, none failing,
\* from the empty store
RECURSIVE Unfailing(_)
Unfailing(h) ==
    IF h = <<>>
    THEN [rows |-> {}, seq |-> 0, same |-> TRUE]
    ELSE LET before == Unfailing(SubSeq(h, 1, Len(h) - 1))
             call == h[Len(h)]
             res == CASE call.op = "add" ->
                            SimpleMemoryAddCall(before.rows, before.seq, clock,
                                                call.req, FALSE)
                      [] call.op = "delete" ->
                            [seq |-> before.seq] @@
                            SimpleMemoryDeleteCall(before.rows, call.req, FALSE)
                      [] call.op = "list" ->
                            [rows |-> before.rows, seq |-> before.seq,
                             res |-> SimpleMemoryListCall(before.rows, FALSE)]
                      [] OTHER ->
                            [rows |-> before.rows, seq |-> before.seq,
                             res |-> SimpleMemorySearchCall(before.rows,
                                                            call.req, FALSE)]
         IN  [rows |-> res.rows, seq |-> res.seq,
              same |-> before.same /\ res.res = call.res]

\* ---------------------------------------------------------------------
\* C21  Operation failures are recoverable: every call returns a success
\*      result or one of the error results and the process keeps serving;
\*      the store and the result of every successful call are what they
\*      would be had the failed calls never been made.
\* ---------------------------------------------------------------------
C21_FailuresRecoverable ==
    /\ phase = "serving"
    /\ \A i \in 1..Len(hist) :
          hist[i].res.isError => hist[i].res.text \in ErrorTexts
    /\ LET clean == Unfailing(Successes(hist))
       IN  /\ clean.same
           /\ clean.rows = rows
           /\ clean.seq = seq

\* an Add succeeded, a Delete failed in the store, and the List after it
\* returned the record
C21_Witness ==
    /\ Len(hist) = 3
    /\ hist[1].op = "add" /\ ~hist[1].res.isError
    /\ hist[2].op = "delete"
    /\ hist[2].res.text = "failed to delete simple-memories"
    /\ hist[3].op = "list" /\ ~hist[3].res.isError
    /\ Len(hist[3].res.lines) = 1

\* the lines are those of the records of S, each once, by ascending id
ListsExactly(lines, S) ==
    /\ LineSet(lines) = {FormatMemory(r) : r \in S}
    /\ Len(lines) = Cardinality(S)
    /\ \A i \in 1..Len(lines), j \in 1..Len(lines) :
          i < j => lines[i].id < lines[j].id

\* the records whose content is not blank
Readable(S) == {r \in S : ~IsBlank(r.content)}

\* ---------------------------------------------------------------------
\* C22  A stored record whose content reads as empty or whitespace-only is
\*      silently left out of the results of List and Search: the call
\*      succeeds and returns exactly the other records (for Search, those
\*      the query selects), by ascending id.
\* ---------------------------------------------------------------------
C22_BlankContentOmitted ==
    [][/\ (result'.op = "list" /\ SimpleMemoryListWith(FALSE)) =>
            /\ ~result'.res.isError
            /\ ListsExactly(result'.res.lines, Readable(rows))
       /\ (/\ result'.op = "search"
           /\ HasString(result'.req, "query")
           /\ QueryOf(result'.req["query"]) # Empty
           /\ SimpleMemorySearchWith(result'.req, FALSE)) =>
            /\ ~result'.res.isError
            /\ ListsExactly(result'.res.lines,
                   Readable({r \in rows : SearchWhere(r, AskedQuery(result'))}))
      ]_vars

\* Search selected two records by their titles, one of them with blank
\* content, and returned the other alone
C22_Witness ==
    /\ result.op = "search" /\ ~result.res.isError
    /\ Cardinality(rows) = 2
    /\ \A r \in rows : SearchWhere(r, AskedQuery(result))
    /\ Cardinality(Readable(rows)) = 1
    /\ Len(result.res.lines) = 1

\* the call before this one was a Delete that succeeded
AfterDelete ==
    /\ Len(hist) > 0
    /\ hist[Len(hist)].op = "delete"
    /\ ~hist[Len(hist)].res.isError

\* ---------------------------------------------------------------------
\* C23  Delete is idempotent in its query: right after a successful
\*      Delete(q), a Search(q) that succeeds reports no matches, and a
\*      second Delete(q) that succeeds returns count 0 and leaves the
\*      records as they are.
\* ---------------------------------------------------------------------
C23_DeleteIdempotent ==
    [][(AfterDelete /\ result'.req = hist[Len(hist)].req
            /\ ~result'.res.isError) =>
        /\ result'.op = "search" =>
              /\ result'.res.lines = <<>>
              /\ result'.res.text = "No matching simple-memories found."
        /\ result'.op = "delete" =>
              /\ result'.res.n = 0
              /\ result'.res.text = "No simple-memories deleted (no match)."
              /\ rows' = rows
              /\ seq' = seq]_vars

\* a Delete removed the one record and the same Delete made again has
\* returned count 0
C23_Witness ==
    /\ Len(hist) = 3
    /\ hist[2].op = "delete" /\ ~hist[2].res.isError /\ hist[2].res.n = 1
    /\ hist[3].op = "delete" /\ hist[3].req = hist[2].req
    /\ ~hist[3].res.isError /\ hist[3].res.n = 0
    /\ rows = {}

====
